---- MODULE Spec2Model ----
(***************************************************************************)
(* Model of bacon_number.py: class BaconNumberCalculator.                  *)
(*                                                                         *)
(*   generateAdjList  builds adjList, a dict of insertion-ordered dicts,   *)
(*                    one (i, j) pair of one record at a time;             *)
(*   calcBaconNumber  breadth-first search with a deque, a visited set and *)
(*                    the backpointer dict prev, then path reconstruction; *)
(*   calcAvgNumber    sampling loop that calls calcBaconNumber on a        *)
(*                    randomly chosen actor until the running average      *)
(*                    moves by no more than threshold.                     *)
(*                                                                         *)
(* A Python dict keeps insertion order and BFS iterates .items() in that   *)
(* order, so adjList[a] is a sequence of <<coActor, movie>> pairs.         *)
(* Averages are floats in the code; here they are exact fractions          *)
(* <<numerator, denominator>>, and float("inf") is <<1, 0>>.  For the      *)
(* small integers and thresholds below every quotient compared against a   *)
(* threshold is separated from it by far more than a rounding error, or    *)
(* is exactly representable, so both arithmetics take the same branches.   *)
(***************************************************************************)
EXTENDS Integers, Sequences, FiniteSets, TLC

\* ---------------------------------------------------------------- bounds
MaxLines == 2
MaxActors == 3
MaxRounds == 3

Members == {"a", "b", "c", "d"}
Movies == {"m1", "m2"}
\* the smaller input alphabet of the files read under AvgSpec
AvgMembers == {"a", "b", "c"}
AvgMovies == {"m1"}
\* thresholds 1/2, 1 and 2
Thresholds == {<<1, 2>>, <<1, 1>>, <<2, 1>>}

\* Python's None: distinct from every member and every movie
None == "None"

VARIABLES
    pc,          \* position in the program
    adjList,     \* self.adjList
    lines,       \* number of lines of the file read so far
    movie,       \* generateAdjList: movie
    actors,      \* generateAdjList: actors
    i,           \* generateAdjList: i (0-based, as in the code)
    j,           \* generateAdjList: j
    call,        \* which public method the caller invoked: "none", "bacon", "avg"
    startActor,  \* calcBaconNumber / calcAvgNumber: startActor
    endActor,    \* calcBaconNumber: endActor (calcAvgNumber: the drawn actor)
    visited,     \* calcBaconNumber: visited
    queue,       \* calcBaconNumber: queue
    prev,        \* calcBaconNumber: prev
    actor,       \* calcBaconNumber: actor
    k,           \* calcBaconNumber: position of the .items() iterator (1-based)
    result,      \* calcBaconNumber: the returned [distance, path]
    enq,         \* history: how often each member was appended to queue
    threshold,   \* calcAvgNumber: threshold
    previousAvg, \* calcAvgNumber: previousAvg
    curDiff,     \* calcAvgNumber: curDiff
    totalBNum,   \* calcAvgNumber: totalBNum
    rounds,      \* calcAvgNumber: rounds
    avgRet       \* calcAvgNumber: the returned value

buildVars == <<adjList, lines, movie, actors, i, j>>
bfsVars == <<startActor, endActor, visited, queue, prev, actor, k, result, enq>>
avgVars == <<threshold, previousAvg, curDiff, totalBNum, rounds, avgRet>>
vars == <<pc, call, buildVars, bfsVars, avgVars>>

\* ---------------------------------------------------------------- helpers
SeqsUpTo(S, n) == UNION {[1..m -> S] : m \in 0..n}

Reverse(s) == [x \in 1..Len(s) |-> s[Len(s) + 1 - x]]

\* coActor in self.adjList[a]
HasCo(items, co) == \E x \in 1..Len(items) : items[x][1] = co

\* self.adjList[a][co]
Label(items, co) == items[CHOOSE x \in 1..Len(items) : items[x][1] = co][2]

\* keys of self.adjList[a]
CoActors(adj, a) == {adj[a][x][1] : x \in 1..Len(adj[a])}

\* fractions; <<1, 0>> is +infinity
Inf == <<1, 0>>
Zero == <<0, 1>>
Gt(x, y) == x[1] * y[2] > y[1] * x[2]
Abs(n) == IF n < 0 THEN -n ELSE n
AbsDiff(x, y) == <<Abs(x[1] * y[2] - y[1] * x[2]), x[2] * y[2]>>
IsInt(x, n) == x[2] > 0 /\ x[1] = n * x[2]

\* ------------------------------------------------------- generateAdjList
\* if x not in self.adjList: self.adjList[x] = {}
AddKey(adj, x) == IF x \in DOMAIN adj THEN adj ELSE adj @@ (x :> <<>>)

\* if y not in self.adjList[x]: self.adjList[x][y] = movie
AddEdge(adj, x, y, mv) ==
    IF HasCo(adj[x], y) THEN adj ELSE [adj EXCEPT ![x] = Append(@, <<y, mv>>)]

ProcessPairOneWay(adj, ai, aj, mv) == AddKey(AddEdge(adj, ai, aj, mv), aj)

\* body of the inner loop, lines 109-116
ProcessPair(adj, ai, aj, mv) ==
    AddEdge(AddKey(AddEdge(adj, ai, aj, mv), aj), aj, ai, mv)

AvgIdle ==
    /\ threshold' = Zero /\ previousAvg' = Zero /\ curDiff' = Inf
    /\ totalBNum' = 0 /\ rounds' = 0 /\ avgRet' = Zero

Init ==
    /\ pc = "read" /\ call = "none"
    /\ adjList = <<>> /\ lines = 0 /\ movie = None /\ actors = <<>> /\ i = 0 /\ j = 0
    /\ startActor = None /\ endActor = None /\ visited = {} /\ queue = <<>>
    /\ prev = <<>> /\ actor = None /\ k = 0 /\ result = <<0, <<>>>>
    /\ enq = [m \in Members |-> 0]
    /\ threshold = Zero /\ previousAvg = Zero /\ curDiff = Inf
    /\ totalBNum = 0 /\ rounds = 0 /\ avgRet = Zero

\* for line in file: parts = line.strip().split("/"); movie, actors = ...
ReadLine(mv, acs) ==
    /\ pc = "read" /\ lines < MaxLines
    /\ lines' = lines + 1 /\ movie' = mv /\ actors' = acs /\ i' = 0 /\ j' = 0
    /\ pc' = "outer"
    /\ UNCHANGED <<adjList, call, bfsVars, avgVars>>

\* for i in range(len(actors)): lines 105-107
OuterStep ==
    /\ pc = "outer"
    /\ IF i < Len(actors)
       THEN /\ adjList' = AddKey(adjList, actors[i + 1])
            /\ j' = i + 1
            /\ pc' = "inner"
            /\ UNCHANGED i
       ELSE /\ pc' = "read"
            /\ UNCHANGED <<adjList, i, j>>
    /\ UNCHANGED <<lines, movie, actors, call, bfsVars, avgVars>>

\* for j in range(i + 1, len(actors)): lines 108-116
InnerStep ==
    /\ pc = "inner"
    /\ IF j < Len(actors)
       THEN /\ adjList' = ProcessPair(adjList, actors[i + 1], actors[j + 1], movie)
            /\ j' = j + 1
            /\ UNCHANGED <<i, pc>>
       ELSE /\ i' = i + 1
            /\ pc' = "outer"
            /\ UNCHANGED <<adjList, j>>
    /\ UNCHANGED <<lines, movie, actors, call, bfsVars, avgVars>>

\* end of file: __init__ returns, the graph is built
EndOfFile ==
    /\ pc = "read"
    /\ pc' = "idle"
    /\ lines' = 0 /\ movie' = None /\ actors' = <<>> /\ i' = 0 /\ j' = 0
    /\ UNCHANGED <<adjList, call, bfsVars, avgVars>>

\* ------------------------------------------------------- calcBaconNumber
AbsentSentinel == <<-1, <<>>>>

PrecheckSameFirst(adj, s, e) ==
    IF s = e THEN "same"
    ELSE IF s \notin DOMAIN adj \/ e \notin DOMAIN adj THEN "absent"
    ELSE "search"

\* the two early returns, lines 177-183, in the code's order
Precheck(adj, s, e) ==
    IF s \notin DOMAIN adj \/ e \notin DOMAIN adj THEN "absent"
    ELSE IF s = e THEN "same"
    ELSE "search"

InitialPrevEmpty(s) == <<>>

\* prev = {startActor: (None, None)}, lines 193-195
InitialPrev(s) == (s :> <<None, None>>)

\* actor = queue.popleft(): <<the element removed, the remaining deque>>
Popleft(q) == <<Head(q), Tail(q)>>

UndiscoveredVisitedOnly(co, vis, pv) == co \notin vis

\* coActor not in visited and coActor not in prev, lines 226-228
Undiscovered(co, vis, pv) == co \notin vis /\ co \notin DOMAIN pv

BackpointerFirstMovie(adj, a, x) == <<a, adj[a][1][2]>>

\* (actor, movie) for the x-th item of self.adjList[actor].items(), line 230
Backpointer(adj, a, x) == <<a, adj[a][x][2]>>

RECURSIVE BackPathNoMovie(_, _)
BackPathNoMovie(pv, a) ==
    IF a = None THEN <<>> ELSE <<a>> \o BackPathNoMovie(pv, pv[a][1])

\* the walk along prev, lines 205-212 (before path.reverse())
RECURSIVE BackPath(_, _)
BackPath(pv, a) ==
    IF a = None THEN <<>>
    ELSE <<a>> \o (IF pv[a][2] # None THEN <<pv[a][2]>> ELSE <<>>)
              \o BackPath(pv, pv[a][1])

\* path.reverse(); return [len(path) // 2, path], lines 215-216
Found(pv, a) ==
    LET path == Reverse(BackPath(pv, a)) IN <<Len(path) \div 2, path>>

BfsLocalsIdle ==
    /\ endActor' = None /\ visited' = {} /\ queue' = <<>>
    /\ prev' = <<>> /\ actor' = None /\ k' = 0 /\ result' = <<0, <<>>>>
    /\ enq' = [m \in Members |-> 0]

\* entry of calcBaconNumber(s, e), lines 177-195
EnterBacon(s, e) ==
    /\ startActor' = s /\ endActor' = e /\ actor' = None /\ k' = 0
    /\ LET pre == Precheck(adjList, s, e) IN
       IF pre = "absent"
       THEN /\ result' = AbsentSentinel /\ pc' = "ret"
            /\ visited' = {} /\ queue' = <<>> /\ prev' = <<>>
            /\ enq' = [m \in Members |-> 0]
       ELSE IF pre = "same"
       THEN /\ result' = <<0, <<s>>>> /\ pc' = "ret"
            /\ visited' = {} /\ queue' = <<>> /\ prev' = <<>>
            /\ enq' = [m \in Members |-> 0]
       ELSE /\ result' = <<0, <<>>>> /\ pc' = "bfs"
            /\ visited' = {} /\ queue' = <<s>>
            /\ prev' = InitialPrev(s)
            /\ enq' = [m \in Members |-> IF m = s THEN 1 ELSE 0]

\* a caller invokes calcBaconNumber(s, e)
CallBacon(s, e) ==
    /\ pc = "idle"
    /\ call' = "bacon"
    /\ EnterBacon(s, e)
    /\ UNCHANGED <<buildVars, avgVars>>

\* while queue: ... actor = queue.popleft(), lines 198-221
BfsDequeue ==
    /\ pc = "bfs" /\ queue # <<>>
    /\ LET p == Popleft(queue) IN
       /\ actor' = p[1]
       /\ queue' = p[2]
       /\ IF p[1] = endActor
          THEN /\ result' = Found(prev, p[1]) /\ pc' = "ret"
               /\ UNCHANGED <<visited, k>>
          ELSE IF p[1] \notin visited
          THEN /\ visited' = visited \cup {p[1]} /\ k' = 1 /\ pc' = "for"
               /\ UNCHANGED result
          ELSE UNCHANGED <<visited, k, result, pc>>
    /\ UNCHANGED <<startActor, endActor, prev, enq, call, buildVars, avgVars>>

\* one iteration of: for coActor, movie in self.adjList[actor].items(), lines 224-231
BfsFor ==
    /\ pc = "for"
    /\ IF k <= Len(adjList[actor])
       THEN LET co == adjList[actor][k][1] IN
            /\ k' = k + 1
            /\ IF Undiscovered(co, visited, prev)
               THEN /\ prev' = [x \in DOMAIN prev \cup {co} |->
                                 IF x = co THEN Backpointer(adjList, actor, k)
                                 ELSE prev[x]]
                    /\ queue' = Append(queue, co)
                    /\ enq' = [enq EXCEPT ![co] = @ + 1]
               ELSE UNCHANGED <<prev, queue, enq>>
            /\ UNCHANGED pc
       ELSE /\ pc' = "bfs"
            /\ UNCHANGED <<k, prev, queue, enq>>
    /\ UNCHANGED <<startActor, endActor, visited, actor, result, call, buildVars, avgVars>>

\* the queue ran empty: return [-1, []], line 234
BfsEmpty ==
    /\ pc = "bfs" /\ queue = <<>>
    /\ result' = AbsentSentinel
    /\ pc' = "ret"
    /\ UNCHANGED <<startActor, endActor, visited, queue, prev, actor, k, enq,
                   call, buildVars, avgVars>>

\* calcBaconNumber returns to an outside caller; its locals are gone
ReturnBacon ==
    /\ pc = "ret" /\ call = "bacon"
    /\ pc' = "idle" /\ call' = "none"
    /\ startActor' = None
    /\ BfsLocalsIdle
    /\ UNCHANGED <<buildVars, avgVars>>

\* --------------------------------------------------------- calcAvgNumber
LoopCondGe(cd, th) == ~Gt(th, cd)

\* while curDiff > threshold, line 288
LoopCond(cd, th) == Gt(cd, th)

ValidNotMinusOne(bNum) == bNum # -1

\* if bNum != -1 and bNum != 0, line 297
Valid(bNum) == bNum # -1 /\ bNum # 0

CurrentAvgOffByOne(total, r) == <<total, r + 1>>

\* currentAvg = totalBNum / rounds, line 301
CurrentAvg(total, r) == <<total, r>>

\* a caller invokes calcAvgNumber(s, th), lines 273-285
CallAvg(s, th) ==
    /\ pc = "idle"
    /\ call' = "avg"
    /\ startActor' = s /\ threshold' = th
    /\ previousAvg' = Zero /\ curDiff' = Inf /\ totalBNum' = 0 /\ rounds' = 0
    /\ IF s \notin DOMAIN adjList
       THEN avgRet' = <<-1, 1>> /\ pc' = "avgret"
       ELSE avgRet' = Zero /\ pc' = "avg"
    /\ UNCHANGED <<endActor, visited, queue, prev, actor, k, result, enq, buildVars>>

\* loop head true: rounds += 1; actor = random.choice(actors);
\* self.calcBaconNumber(startActor, actor), lines 288-294
AvgDraw(m) ==
    /\ pc = "avg" /\ LoopCond(curDiff, threshold)
    /\ rounds < MaxRounds
    /\ m \in DOMAIN adjList
    /\ rounds' = rounds + 1
    /\ EnterBacon(startActor, m)
    /\ UNCHANGED <<call, buildVars, threshold, previousAvg, curDiff, totalBNum, avgRet>>

\* the rest of the loop body, lines 294-308
AvgRound ==
    /\ pc = "ret" /\ call = "avg"
    /\ LET bNum == result[1] IN
       IF Valid(bNum)
       THEN LET currentAvg == CurrentAvg(totalBNum + bNum, rounds) IN
            /\ totalBNum' = totalBNum + bNum
            /\ curDiff' = AbsDiff(currentAvg, previousAvg)
            /\ previousAvg' = currentAvg
            /\ UNCHANGED rounds
       ELSE /\ rounds' = rounds - 1
            /\ UNCHANGED <<totalBNum, curDiff, previousAvg>>
    /\ pc' = "avg"
    /\ BfsLocalsIdle
    /\ UNCHANGED <<startActor, call, buildVars, threshold, avgRet>>

\* loop head false: return previousAvg, line 311
AvgExit ==
    /\ pc = "avg" /\ ~LoopCond(curDiff, threshold)
    /\ avgRet' = previousAvg
    /\ pc' = "avgret"
    /\ UNCHANGED <<call, buildVars, bfsVars, threshold, previousAvg, curDiff,
                   totalBNum, rounds>>

\* calcAvgNumber returns to its caller; its locals are gone
ReturnAvg ==
    /\ pc = "avgret"
    /\ pc' = "idle" /\ call' = "none"
    /\ startActor' = None
    /\ AvgIdle
    /\ UNCHANGED <<endActor, visited, queue, prev, actor, k, result, enq, buildVars>>

Build(movies, members) ==
    \/ \E mv \in movies, acs \in SeqsUpTo(members, MaxActors) : ReadLine(mv, acs)
    \/ OuterStep
    \/ InnerStep
    \/ EndOfFile

Bfs ==
    \/ BfsDequeue
    \/ BfsFor
    \/ BfsEmpty

\* construction, then any sequence of calcBaconNumber calls
Next ==
    \/ Build(Movies, Members)
    \/ \E s \in Members, e \in Members : CallBacon(s, e)
    \/ Bfs
    \/ ReturnBacon

Spec == Init /\ [][Next]_vars

\* construction, then any sequence of calcAvgNumber calls
AvgNext ==
    \/ Build(AvgMovies, AvgMembers)
    \/ \E s \in Members, th \in Thresholds : CallAvg(s, th)
    \/ \E m \in Members : AvgDraw(m)
    \/ Bfs
    \/ AvgRound
    \/ AvgExit
    \/ ReturnAvg

AvgSpec == Init /\ [][AvgNext]_vars

\* fair draws and a scheduler that keeps running the method it entered
FairAvgSpec ==
    /\ AvgSpec
    /\ WF_vars(Bfs) /\ WF_vars(AvgRound) /\ WF_vars(AvgExit)
    /\ \A m \in Members : SF_vars(AvgDraw(m))

\* ------------------------------------------------ graph-theoretic reference
Keys == DOMAIN adjList

\* members reached from s by a walk of exactly n edges
RECURSIVE Exactly(_, _)
Exactly(s, n) ==
    IF n = 0 THEN {s}
    ELSE UNION {CoActors(adjList, x) : x \in Exactly(s, n - 1)}

\* members reached from s by a walk of at most n edges
Within(s, n) == UNION {Exactly(s, m) : m \in 0..n}

Reachable(s) == Within(s, Cardinality(Members))

\* the members other than s that s is connected to
Others(s) == Reachable(s) \ {s}

\* every member s is connected to, other than s, is exactly kk edges away
UniformDist(s, kk) ==
    /\ s \in Keys
    /\ Others(s) # {}
    /\ \A m \in Others(s) : m \in Exactly(s, kk) /\ \A n \in 0..(kk - 1) : m \notin Exactly(s, n)

Returned == pc = "ret"

\* ---------------------------------------------------------------- claims

\* C1: for distinct connected members A, B of the graph, calcBaconNumber(A, B)
\* returns a distance d such that a path of d edges from A to B exists and no
\* path of fewer than d edges does.
C1_ShortestDistance ==
    (/\ Returned
     /\ startActor \in Keys /\ endActor \in Keys /\ startActor # endActor
     /\ endActor \in Reachable(startActor))
    => /\ result[1] >= 1
       /\ endActor \in Exactly(startActor, result[1])
       /\ \A n \in 0..(result[1] - 1) : endActor \notin Exactly(startActor, n)

C1_Witness ==
    /\ Returned /\ result[1] = 2
    /\ endActor \in Exactly(startActor, 2) /\ endActor \in Exactly(startActor, 3)

\* C2: whenever calcBaconNumber(A, B) returns a distance d >= 0, the path has
\* 2*d + 1 tokens, starts with A, ends with B, and has members at the even
\* (0-based) positions and movie labels at the odd ones.
C2_PathShape ==
    (Returned /\ result[1] >= 0) =>
        LET d == result[1]
            path == result[2]
        IN /\ Len(path) = 2 * d + 1
           /\ path[1] = startActor
           /\ path[Len(path)] = endActor
           /\ \A x \in 1..Len(path) :
                IF x % 2 = 1 THEN path[x] \in Keys ELSE path[x] \in Movies

C2_Witness == Returned /\ result[1] = 2 /\ Len(result[2]) = 5

\* C3: calcBaconNumber returns (-1, []) exactly when start or end is no key of
\* the graph or no path connects them; an absent member queried against itself
\* gets (-1, []) too, because absence is tested first.
C3_SentinelIff ==
    Returned =>
        /\ result = AbsentSentinel
           <=> \/ startActor \notin Keys
               \/ endActor \notin Keys
               \/ endActor \notin Reachable(startActor)
        /\ result[1] = -1 <=> result = AbsentSentinel

C3_Witness ==
    /\ Returned /\ startActor = endActor /\ startActor \notin Keys
    /\ Keys # {} /\ result = AbsentSentinel

\* C4: after generateAdjList has processed any records, no member is a key of
\* its own adjacency (no self-loops).
C4_NoSelfLoops == \A a \in Keys : a \notin CoActors(adjList, a)

\* C5: after every processed pair, and in the final graph, B is in A's adjacency
\* iff A is in B's, and every member named in an adjacency is a key of the graph.
C5_Symmetric ==
    \A a \in Keys : \A b \in CoActors(adjList, a) :
        b \in Keys /\ a \in CoActors(adjList, b)

C5_Witness ==
    /\ pc = "inner" /\ j = i + 2
    /\ actors[i + 1] # actors[j]
    /\ Len(adjList[actors[j]]) >= 2

\* C9: during the search every member is appended to queue at most once, the
\* members ever appended are exactly the keys of prev, and an entry of prev is
\* never overwritten.
C9_EnqueuedOnce ==
    /\ [](/\ \A m \in Members : enq[m] <= 1
          /\ {m \in Members : enq[m] >= 1} = DOMAIN prev)
    /\ [][(pc \in {"bfs", "for"}) =>
            \A m \in DOMAIN prev : m \in DOMAIN prev' /\ prev'[m] = prev[m]]_vars

\* the guard on prev matters: a co-actor that is queued but not yet visited
C9_Witness ==
    /\ pc = "for" /\ k <= Len(adjList[actor])
    /\ adjList[actor][k][1] \notin visited
    /\ adjList[actor][k][1] \in DOMAIN prev
    /\ adjList[actor][k][1] # startActor

\* C10: a returned path of distance d >= 1 is a walk in the graph with the
\* stored labels: for consecutive (m, g, n), n is in adjList[m] and
\* adjList[m][n] = g; no member occurs twice.
C10_RealWalk ==
    (Returned /\ result[1] >= 1) =>
        LET path == result[2]
            odd == {x \in 1..Len(path) : x % 2 = 1}
        IN /\ \A x \in odd : x + 2 <= Len(path) =>
                /\ path[x] \in Keys
                /\ HasCo(adjList[path[x]], path[x + 2])
                /\ Label(adjList[path[x]], path[x + 2]) = path[x + 1]
           /\ \A x, y \in odd : x # y => path[x] # path[y]

C10_Witness ==
    /\ Returned /\ result[1] = 2
    /\ result[2][2] # result[2][4]

\* C6: when every member start is connected to is at the same distance kk >= 1,
\* calcAvgNumber(start, threshold) terminates under fair draws and returns kk.
C6_UniformConverges ==
    \A kk \in 1..Cardinality(Members) :
        (call = "avg" /\ pc = "avg" /\ UniformDist(startActor, kk))
            ~> (pc = "avgret" /\ IsInt(avgRet, kk))

C6_Witness ==
    /\ pc = "avgret" /\ UniformDist(startActor, 1)
    /\ rounds = 2 /\ IsInt(avgRet, 1)

C8_IsolatedNeverReturns ==
    (call = "avg" /\ startActor \in Keys /\ Others(startActor) = {}) =>
        /\ pc # "avgret"
        /\ pc = "avg" => /\ rounds = 0 /\ totalBNum = 0
                         /\ previousAvg = Zero /\ curDiff = Inf
                         /\ Gt(curDiff, threshold)

\* a draw of an unreachable member is about to be discarded
C8_Witness ==
    /\ call = "avg" /\ pc = "ret" /\ rounds = 1
    /\ startActor \in Keys /\ Others(startActor) = {}
    /\ endActor # startActor /\ result = AbsentSentinel

====
